---- MODULE Spec2Model ----
\* A model of rusty_snake (src/src/main.rs): the Field grid that stores the
\* snake as a chain of directions, the Game step of the main loop, and the
\* snake strategies that choose the direction of each step.
EXTENDS Integers, Sequences, FiniteSets, TLC

VARIABLES
    head,       \* Game.head
    apple,      \* Game.apple
    field,      \* Game.field (dimension and directions)
    apples,     \* Game.apples
    moves,      \* Game.moves
    outcome,    \* where the main loop is: "running", or the reason it ended
    snake_dir,  \* what the snake answered on the last iteration (Option<Direction>)
    step,       \* the path the last iteration took through the loop body
    call,       \* the last Field operation applied on its own: [op, arg, ret]
    trail,      \* the cells a walk along move_to has visited, first to last
    since,      \* iterations that moved the snake since the last apple was eaten
    segments    \* the cells of the snake kept as an explicit queue, head first

vars == <<head, apple, field, apples, moves, outcome, snake_dir, step, call, trail,
          since, segments>>

\* ---------------------------------------------------------------- bounds

\* Boards of the game driven by arbitrary directions: W,H >= 2, W*H <= MaxCells.
MaxCells == 9
\* Iterations of the main loop explored when the directions are arbitrary.
MaxMoves == 10
\* Boards of the game driven by HamiltonianSnake: W,H >= 2, W*H <= HamMaxCells.
HamMaxCells == 15
\* Boards of the same game when its liveness is checked.
LiveMaxCells == 11
\* Boards of the same game when the iterations between apples are counted.
StarveMaxCells == 12
\* Boards of the game driven by the impatient snake.
ImpatientMaxCells == 9
\* Boards of the game driven by GreedyPickySnake, and iterations followed.
PickyMaxCells == 9
PickyMaxMoves == 30
\* Boards of the walk along move_to: W,H >= 2, W*H <= WalkMaxCells.
WalkMaxCells == 25
\* Boards on which move_to is applied to one head and two apples.
GenMaxCells == 25
\* Boards of the Field operations applied on their own, and cells written.
FieldMaxCells == 6
MaxSet == 4
\* Boards whose head and apple are the inputs of prioritize.
PrioMaxCells == 16

\* ---------------------------------------------------------------- Option

None == <<>>
Some(v) == <<v>>

\* ---------------------------------------------------------------- Direction

Direction == {"Left", "Right", "Up", "Down", "End", "Null"}

Direction_invert(dir) ==
    CASE dir = "Left"  -> "Right"
      [] dir = "Right" -> "Left"
      [] dir = "Up"    -> "Down"
      [] dir = "Down"  -> "Up"
      [] dir = "End"   -> "End"
      [] dir = "Null"  -> "Null"

Direction_valid(dir) ==
    CASE dir = "End"  -> FALSE
      [] dir = "Null" -> FALSE
      [] OTHER        -> TRUE

\* Direction::random draws one of the four movement directions.
Direction_random == {"Left", "Right", "Up", "Down"}

\* ---------------------------------------------------------------- Coordinate

Coordinate(x, y) == [x |-> x, y |-> y]

Coordinate_move_towards(self, dir) ==
    CASE dir = "Left"  -> Coordinate(self.x - 1, self.y)
      [] dir = "Right" -> Coordinate(self.x + 1, self.y)
      [] dir = "Up"    -> Coordinate(self.x, self.y - 1)
      [] dir = "Down"  -> Coordinate(self.x, self.y + 1)
      [] dir = "End"   -> Coordinate(self.x, self.y)
      [] dir = "Null"  -> Coordinate(self.x, self.y)

\* Coordinate::random: every coordinate of [0, self.x) x [0, self.y) can be drawn.
Coordinate_random(self) ==
    {Coordinate(x, y) : x \in 0..(self.x - 1), y \in 0..(self.y - 1)}

Coordinate_difference(self, other) ==
    Coordinate(other.x - self.x, other.y - self.y)

odd(value) == value % 2 = 1

abs(v) == IF v < 0 THEN -v ELSE v

\* ---------------------------------------------------------------- Field

\* directions[y+1][x+1] is the source's directions[y][x].
Field_init(dimension) ==
    [dimension  |-> dimension,
     directions |-> [y \in 1..dimension.y |-> [x \in 1..dimension.x |-> "Null"]]]

Field_get(self, position) ==
    self.directions[position.y + 1][position.x + 1]

Field_set(self, position, direction) ==
    [self EXCEPT !.directions[position.y + 1][position.x + 1] = direction]

Field_next(self, position) ==
    Coordinate_move_towards(position, Field_get(self, position))

\* valid with the first column taken for a wall.
Field_valid_strict(self, position) ==
    /\ position.x > 0
    /\ position.y >= 0
    /\ position.x < self.dimension.x
    /\ position.y < self.dimension.y

Field_valid(self, position) ==
    /\ position.x >= 0
    /\ position.y >= 0
    /\ position.x < self.dimension.x
    /\ position.y < self.dimension.y

Field_available(self, position) ==
    Field_get(self, position) = "Null"

\* The two nested loops of random_available, flattened: iteration i is
\* y = i \div w (outer), x = i % w (inner).
RECURSIVE random_available_scan(_, _, _)
random_available_scan(self, r, i) ==
    LET w == self.dimension.x
        h == self.dimension.y
    IN  IF i >= w * h THEN None
        ELSE LET x == i % w
                 y == i \div w
                 p == Coordinate((x + r.x) % w, (y + r.y) % h)
             IN  IF Field_available(self, p) THEN Some(p)
                 ELSE random_available_scan(self, r, i + 1)

\* random_available that takes the drawn coordinate without looking at it.
Field_random_available_unchecked(self, r) ==
    Some(r)

\* random_available whose loops run from the offset to the last row and
\* column, without wrapping around.
Field_random_available_no_wrap(self, r) ==
    LET free == {p \in Coordinate_random(self.dimension) :
                    p.x >= r.x /\ p.y >= r.y /\ Field_get(self, p) = "Null"}
    IN  IF free = {} THEN None
        ELSE Some(CHOOSE p \in free :
                    \A q \in free : p.y < q.y \/ (p.y = q.y /\ p.x <= q.x))

\* random_available whose scan stops one cell short.
RECURSIVE random_available_scan_short(_, _, _)
random_available_scan_short(self, r, i) ==
    LET w == self.dimension.x
        h == self.dimension.y
    IN  IF i >= w * h - 1 THEN None
        ELSE LET x == i % w
                 y == i \div w
                 p == Coordinate((x + r.x) % w, (y + r.y) % h)
             IN  IF Field_get(self, p) = "Null" THEN Some(p)
                 ELSE random_available_scan_short(self, r, i + 1)

Field_random_available_short(self, r) ==
    random_available_scan_short(self, r, 0)

\* r is the offset that self.dimension.random(rng) drew.
Field_random_available(self, r) ==
    random_available_scan(self, r, 0)

\* The while loop of drop_last. Reading a cell outside the grid panics (index
\* out of bounds). The walk is a function of the cell it is on, so once it has
\* taken more steps than the grid has cells it is on a cycle and never ends.
\* (next_b is bound to the value of self.next(b) before the next iteration.)
RECURSIVE drop_last_walk(_, _, _, _)
drop_last_walk(self, a, b, fuel) ==
    IF ~Field_valid(self, b) THEN [status |-> "panic", a |-> a, b |-> b]
    ELSE IF Field_get(self, b) = "End" THEN [status |-> "ok", a |-> a, b |-> b]
    ELSE IF fuel = 0 THEN [status |-> "hang", a |-> a, b |-> b]
    ELSE CHOOSE w \in {drop_last_walk(self, b, next_b, fuel - 1) :
                        next_b \in {Field_next(self, b)}} : TRUE

\* drop_last without its last write: the dropped cell keeps its End.
Field_drop_last_keeps_cell(self, start) ==
    IF ~Field_valid(self, start)
    THEN [status |-> "panic", field |-> self, ret |-> None]
    ELSE LET w == drop_last_walk(self, start, Field_next(self, start),
                                 self.dimension.x * self.dimension.y)
         IN  IF w.status = "ok"
             THEN [status |-> "ok",
                   field  |-> Field_set(self, w.a, "End"),
                   ret    |-> Some(w.b)]
             ELSE [status |-> w.status, field |-> self, ret |-> None]

\* drop_last without its first write: no cell is made the new End.
Field_drop_last_no_end(self, start) ==
    IF ~Field_valid(self, start)
    THEN [status |-> "panic", field |-> self, ret |-> None]
    ELSE LET w == drop_last_walk(self, start, Field_next(self, start),
                                 self.dimension.x * self.dimension.y)
         IN  IF w.status = "ok"
             THEN [status |-> "ok",
                   field  |-> Field_set(self, w.b, "Null"),
                   ret    |-> Some(w.b)]
             ELSE [status |-> w.status, field |-> self, ret |-> None]

\* drop_last that returns the cell before the dropped one.
Field_drop_last_returns_a(self, start) ==
    IF ~Field_valid(self, start)
    THEN [status |-> "panic", field |-> self, ret |-> None]
    ELSE LET w == drop_last_walk(self, start, Field_next(self, start),
                                 self.dimension.x * self.dimension.y)
         IN  IF w.status = "ok"
             THEN [status |-> "ok",
                   field  |-> Field_set(Field_set(self, w.a, "End"), w.b, "Null"),
                   ret    |-> Some(w.a)]
             ELSE [status |-> w.status, field |-> self, ret |-> None]

\* status "ok": the field after the call and the coordinate returned;
\* "hang": the loop never ends; "panic": an index out of bounds.
Field_drop_last(self, start) ==
    IF ~Field_valid(self, start)
    THEN [status |-> "panic", field |-> self, ret |-> None]
    ELSE LET w == drop_last_walk(self, start, Field_next(self, start),
                                 self.dimension.x * self.dimension.y)
         IN  IF w.status = "ok"
             THEN [status |-> "ok",
                   field  |-> Field_set(Field_set(self, w.a, "End"), w.b, "Null"),
                   ret    |-> Some(w.b)]
             ELSE [status |-> w.status, field |-> self, ret |-> None]

\* ---------------------------------------------------------------- snakes

SillySnake_move_to == {Some(d) : d \in Direction_random}

GreedySnake_move_to(game_head, game_apple) ==
    LET delta == Coordinate_difference(game_head, game_apple)
    IN  Some(IF (abs(delta.x) < abs(delta.y) \/ delta.y = 0) /\ delta.x # 0
             THEN (IF delta.x > 0 THEN "Right" ELSE "Left")
             ELSE (IF delta.y > 0 THEN "Down" ELSE "Up"))

\* move_to with the even columns running one row too far down.
HamiltonianSnake_move_to_too_far(game_head, game_apple, game_field) ==
    LET x == game_head.x
        y == game_head.y
        w == game_field.dimension.x
        h == game_field.dimension.y
    IN  Some(IF y = 0
             THEN (IF x > 0 THEN "Left" ELSE "Down")
             ELSE IF x = w - 1
             THEN (IF odd(x) THEN "Up"
                   ELSE IF odd(h - y) THEN "Up"
                   ELSE IF y = 1 /\ odd(w) /\ odd(h) /\ game_apple.y = 0
                        THEN "Up" ELSE "Left")
             ELSE IF x = w - 2 /\ odd(w)
             THEN (IF ~odd(h - y) THEN "Up" ELSE "Right")
             ELSE IF odd(x)
             THEN (IF y > 1 THEN "Up" ELSE "Right")
             ELSE (IF y < h THEN "Down" ELSE "Right"))

\* move_to without the corner case of the boards of odd area.
HamiltonianSnake_move_to_no_corner(game_head, game_apple, game_field) ==
    LET x == game_head.x
        y == game_head.y
        w == game_field.dimension.x
        h == game_field.dimension.y
    IN  Some(IF y = 0
             THEN (IF x > 0 THEN "Left" ELSE "Down")
             ELSE IF x = w - 1
             THEN (IF odd(x) THEN "Up"
                   ELSE IF odd(h - y) THEN "Up"
                   ELSE "Left")
             ELSE IF x = w - 2 /\ odd(w)
             THEN (IF ~odd(h - y) THEN "Up" ELSE "Right")
             ELSE IF odd(x)
             THEN (IF y > 1 THEN "Up" ELSE "Right")
             ELSE (IF y < h - 1 THEN "Down" ELSE "Right"))

\* move_to with the odd columns climbing into row 0.
HamiltonianSnake_move_to_row0(game_head, game_apple, game_field) ==
    LET x == game_head.x
        y == game_head.y
        w == game_field.dimension.x
        h == game_field.dimension.y
    IN  Some(IF y = 0
             THEN (IF x > 0 THEN "Left" ELSE "Down")
             ELSE IF x = w - 1
             THEN (IF odd(x) THEN "Up"
                   ELSE IF odd(h - y) THEN "Up"
                   ELSE IF y = 1 /\ odd(w) /\ odd(h) /\ game_apple.y = 0
                        THEN "Up" ELSE "Left")
             ELSE IF x = w - 2 /\ odd(w)
             THEN (IF ~odd(h - y) THEN "Up" ELSE "Right")
             ELSE IF odd(x)
             THEN (IF y > 0 THEN "Up" ELSE "Right")
             ELSE (IF y < h - 1 THEN "Down" ELSE "Right"))

\* move_to with the corner case taken on every row: the last column looks at
\* the apple wherever the head is in it.
HamiltonianSnake_move_to_any_row(game_head, game_apple, game_field) ==
    LET x == game_head.x
        y == game_head.y
        w == game_field.dimension.x
        h == game_field.dimension.y
    IN  Some(IF y = 0
             THEN (IF x > 0 THEN "Left" ELSE "Down")
             ELSE IF x = w - 1
             THEN (IF odd(x) THEN "Up"
                   ELSE IF odd(h - y) THEN "Up"
                   ELSE IF odd(w) /\ odd(h) /\ game_apple.y = 0
                        THEN "Up" ELSE "Left")
             ELSE IF x = w - 2 /\ odd(w)
             THEN (IF ~odd(h - y) THEN "Up" ELSE "Right")
             ELSE IF odd(x)
             THEN (IF y > 1 THEN "Up" ELSE "Right")
             ELSE (IF y < h - 1 THEN "Down" ELSE "Right"))

HamiltonianSnake_move_to(game_head, game_apple, game_field) ==
    LET x == game_head.x
        y == game_head.y
        w == game_field.dimension.x
        h == game_field.dimension.y
    IN  Some(IF y = 0
             THEN (IF x > 0 THEN "Left" ELSE "Down")
             ELSE IF x = w - 1
             THEN (IF odd(x) THEN "Up"
                   ELSE IF odd(h - y) THEN "Up"
                   ELSE IF y = 1 /\ odd(w) /\ odd(h) /\ game_apple.y = 0
                        THEN "Up" ELSE "Left")
             ELSE IF x = w - 2 /\ odd(w)
             THEN (IF ~odd(h - y) THEN "Up" ELSE "Right")
             ELSE IF odd(x)
             THEN (IF y > 1 THEN "Up" ELSE "Right")
             ELSE (IF y < h - 1 THEN "Down" ELSE "Right"))

\* prioritize with the comparison of the two deltas turned around.
GreedyPickySnake_prioritize_larger(snake, apple_pos) ==
    LET delta == Coordinate_difference(snake, apple_pos)
    IN  IF (abs(delta.x) > abs(delta.y) \/ delta.y = 0) /\ delta.x # 0
        THEN << IF delta.x > 0  THEN "Right" ELSE "Left",
                IF delta.y > 0  THEN "Down"  ELSE "Up",
                IF delta.y <= 0 THEN "Down"  ELSE "Up",
                IF delta.x <= 0 THEN "Right" ELSE "Left" >>
        ELSE << IF delta.y > 0  THEN "Down"  ELSE "Up",
                IF delta.x > 0  THEN "Right" ELSE "Left",
                IF delta.x <= 0 THEN "Right" ELSE "Left",
                IF delta.y <= 0 THEN "Down"  ELSE "Up" >>

GreedyPickySnake_prioritize(snake, apple_pos) ==
    LET delta == Coordinate_difference(snake, apple_pos)
    IN  IF (abs(delta.x) < abs(delta.y) \/ delta.y = 0) /\ delta.x # 0
        THEN << IF delta.x > 0  THEN "Right" ELSE "Left",
                IF delta.y > 0  THEN "Down"  ELSE "Up",
                IF delta.y <= 0 THEN "Down"  ELSE "Up",
                IF delta.x <= 0 THEN "Right" ELSE "Left" >>
        ELSE << IF delta.y > 0  THEN "Down"  ELSE "Up",
                IF delta.x > 0  THEN "Right" ELSE "Left",
                IF delta.x <= 0 THEN "Right" ELSE "Left",
                IF delta.y <= 0 THEN "Down"  ELSE "Up" >>

\* available without the look at the cell: any cell of the grid will do.
GreedyPickySnake_available_in_bounds(game_head, game_field, dir) ==
    LET pos == Coordinate_move_towards(game_head, dir)
    IN  Field_valid(game_field, pos)

GreedyPickySnake_available(game_head, game_field, dir) ==
    LET pos == Coordinate_move_towards(game_head, dir)
    IN  Field_valid(game_field, pos) /\ Field_available(game_field, pos)

GreedyPickySnake_move_to(game_head, game_apple, game_field) ==
    LET preferred == GreedyPickySnake_prioritize(game_head, game_apple)
        available == SelectSeq(preferred,
                        LAMBDA dir : GreedyPickySnake_available(game_head, game_field, dir))
    IN  IF available # <<>> THEN Some(Head(available)) ELSE None

\* The impatient (hybrid) snake, after section 4.5 of the specification: the
\* walk along the Hamiltonian generator from cell p to the tail. It fails on
\* a cell that is not Null, outside the grid, or after W*H cells; visited
\* tells whether the apple has been passed.
RECURSIVE impatient_walk(_, _, _, _, _, _)
impatient_walk(game_apple, game_field, tail, p, visited, fuel) ==
    IF p = tail THEN [safe |-> TRUE, apple_visited |-> visited]
    ELSE IF ~Field_valid(game_field, p) \/ ~Field_available(game_field, p) \/ fuel = 0
    THEN [safe |-> FALSE, apple_visited |-> visited]
    ELSE CHOOSE w \in {impatient_walk(game_apple, game_field, tail, next_p,
                                      visited \/ p = game_apple, fuel - 1) :
                        next_p \in {Coordinate_move_towards(p,
                            HamiltonianSnake_move_to(p, game_apple, game_field)[1])}} : TRUE

\* The cell that holds End on the chain from the head: the tail. (The chain
\* of a game is never malformed; the walk gives up after W*H cells.)
RECURSIVE impatient_tail(_, _, _)
impatient_tail(game_field, p, fuel) ==
    IF ~Field_valid(game_field, p) \/ fuel = 0 THEN p
    ELSE IF Field_get(game_field, p) = "End" THEN p
    ELSE CHOOSE t \in {impatient_tail(game_field, next_p, fuel - 1) :
                        next_p \in {Field_next(game_field, p)}} : TRUE

ImpatientSnake_move_to(game_head, game_apple, game_field) ==
    LET cells  == game_field.dimension.x * game_field.dimension.y
        greedy == GreedyPickySnake_move_to(game_head, game_apple, game_field)
        tail   == impatient_tail(game_field, game_head, cells)
        walk   == impatient_walk(game_apple, game_field, tail,
                                 Coordinate_move_towards(game_head, greedy[1]),
                                 FALSE, cells)
    IN  IF greedy # None /\ walk.safe /\ walk.apple_visited
        THEN greedy
        ELSE HamiltonianSnake_move_to(game_head, game_apple, game_field)

\* ---------------------------------------------------------------- Game

\* The boards of at most maxCells cells: width and height are each >= 2.
Boards(maxCells) ==
    {d \in [x : 2..maxCells, y : 2..maxCells] : d.x * d.y <= maxCells}

NoCall == [op |-> "none", arg |-> None, ret |-> None]

\* Game::init on a width x height board: the head and the offset of the first
\* apple are drawn from the random source.
Game_init(field_dimension) ==
    \E h \in Coordinate_random(field_dimension) :
    \E r \in Coordinate_random(field_dimension) :
        LET f == Field_set(Field_init(field_dimension), h, "End")
            apple_opt == Field_random_available(f, r)
        IN  /\ apple_opt # None
            /\ head = h
            /\ field = f
            /\ apple = apple_opt[1]
            /\ apples = 0
            /\ moves = 0

\* The loop body with the write of the head cell moved before the look at the
\* cell: a step into the body is written to the field before the loop breaks.
Tick_writes_first(snake_opt) ==
    /\ outcome = "running"
    /\ snake_dir' = snake_opt
    /\ UNCHANGED <<call, trail>>
    /\ IF snake_opt = None
       THEN /\ outcome' = "forfeit"
            /\ step' = "forfeit"
            /\ UNCHANGED <<head, apple, field, apples, moves>>
       ELSE IF ~Direction_valid(snake_opt[1])
       THEN /\ outcome' = "ejected"
            /\ step' = "ejected"
            /\ UNCHANGED <<head, apple, field, apples, moves>>
       ELSE
       LET dir == snake_opt[1] IN
       \E new_head \in {Coordinate_move_towards(head, dir)} :
           IF ~Field_valid(field, new_head)
           THEN /\ outcome' = "crashed in wall"
                /\ step' = "wall"
                /\ UNCHANGED <<head, apple, field, apples, moves>>
           ELSE IF Field_get(field, new_head) # "End"
           THEN IF ~Field_available(field, new_head)
                THEN /\ outcome' = "ate snake"
                     /\ step' = "snake"
                     /\ field' = Field_set(field, new_head, Direction_invert(dir))
                     /\ head' = new_head
                     /\ UNCHANGED <<apple, apples, moves>>
                ELSE \E f1 \in {Field_set(field, new_head, Direction_invert(dir))} :
                         /\ head' = new_head
                         /\ step' = IF new_head = apple THEN "apple" ELSE "tail"
                         /\ IF new_head = apple
                            THEN /\ apples' = apples + 1
                                 /\ field' = f1
                                 /\ \E r \in Coordinate_random(f1.dimension) :
                                    \E apple_opt \in {Field_random_available(f1, r)} :
                                          IF apple_opt = None
                                          THEN /\ outcome' = "won"
                                               /\ UNCHANGED <<apple, moves>>
                                          ELSE /\ apple' = apple_opt[1]
                                               /\ outcome' = "running"
                                               /\ moves' = moves + 1
                            ELSE \E dl \in {Field_drop_last(f1, new_head)} :
                                     /\ field' = dl.field
                                     /\ UNCHANGED <<apple, apples>>
                                     /\ IF dl.status = "ok"
                                        THEN /\ outcome' = "running"
                                             /\ moves' = moves + 1
                                        ELSE /\ outcome' = dl.status
                                             /\ UNCHANGED moves
           ELSE \E dl \in {Field_drop_last(field, head)} :
                    /\ UNCHANGED <<apple, apples>>
                    /\ step' = "follow"
                    /\ IF dl.status = "ok"
                       THEN /\ field' = Field_set(dl.field, new_head, Direction_invert(dir))
                            /\ head' = new_head
                            /\ outcome' = "running"
                            /\ moves' = moves + 1
                       ELSE /\ outcome' = dl.status
                            /\ UNCHANGED <<head, field, moves>>

\* One iteration of the loop of main, the snake having answered snake_opt.
\* (\E v \in {e} binds v to the value of e, as a let of the source does.)
Tick(snake_opt) ==
    /\ outcome = "running"
    /\ snake_dir' = snake_opt
    /\ UNCHANGED <<call, trail>>
    /\ IF snake_opt = None
       THEN /\ outcome' = "forfeit"
            /\ step' = "forfeit"
            /\ UNCHANGED <<head, apple, field, apples, moves>>
       ELSE IF ~Direction_valid(snake_opt[1])
       THEN /\ outcome' = "ejected"
            /\ step' = "ejected"
            /\ UNCHANGED <<head, apple, field, apples, moves>>
       ELSE
       LET dir == snake_opt[1] IN
       \E new_head \in {Coordinate_move_towards(head, dir)} :
           IF ~Field_valid(field, new_head)
           THEN /\ outcome' = "crashed in wall"
                /\ step' = "wall"
                /\ UNCHANGED <<head, apple, field, apples, moves>>
           ELSE IF Field_get(field, new_head) # "End"
           THEN IF ~Field_available(field, new_head)
                THEN /\ outcome' = "ate snake"
                     /\ step' = "snake"
                     /\ UNCHANGED <<head, apple, field, apples, moves>>
                ELSE \E f1 \in {Field_set(field, new_head, Direction_invert(dir))} :
                         /\ head' = new_head
                         /\ step' = IF new_head = apple THEN "apple" ELSE "tail"
                         /\ IF new_head = apple
                            THEN /\ apples' = apples + 1
                                 /\ field' = f1
                                 /\ \E r \in Coordinate_random(f1.dimension) :
                                    \E apple_opt \in {Field_random_available(f1, r)} :
                                          IF apple_opt = None
                                          THEN /\ outcome' = "won"
                                               /\ UNCHANGED <<apple, moves>>
                                          ELSE /\ apple' = apple_opt[1]
                                               /\ outcome' = "running"
                                               /\ moves' = moves + 1
                            ELSE \E dl \in {Field_drop_last(f1, new_head)} :
                                     /\ field' = dl.field
                                     /\ UNCHANGED <<apple, apples>>
                                     /\ IF dl.status = "ok"
                                        THEN /\ outcome' = "running"
                                             /\ moves' = moves + 1
                                        ELSE /\ outcome' = dl.status
                                             /\ UNCHANGED moves
           ELSE \E dl \in {Field_drop_last(field, head)} :
                    /\ UNCHANGED <<apple, apples>>
                    /\ step' = "follow"
                    /\ IF dl.status = "ok"
                       THEN /\ field' = Field_set(dl.field, new_head, Direction_invert(dir))
                            /\ head' = new_head
                            /\ outcome' = "running"
                            /\ moves' = moves + 1
                       ELSE /\ outcome' = dl.status
                            /\ UNCHANGED <<head, field, moves>>

\* ---------------------------------------------------------------- Spec
\* The game with a snake that may answer anything.

Init ==
    /\ \E d \in Boards(MaxCells) : Game_init(d)
    /\ outcome = "running"
    /\ snake_dir = None
    /\ step = "init"
    /\ call = NoCall
    /\ trail = <<>>
    /\ since = 0
    /\ segments = <<>>

Next ==
    \E snake_opt \in {None} \cup {Some(d) : d \in Direction} :
        /\ moves < MaxMoves
        /\ Tick(snake_opt)
        /\ UNCHANGED <<since, segments>>

Spec == Init /\ [][Next]_vars

\* ---------------------------------------------------------------- HamSpec
\* The game with HamiltonianSnake (choose_snake(3), as main runs it). The loop
\* of main runs until it breaks, so its iteration is weakly fair.

HamInit ==
    /\ \E d \in Boards(HamMaxCells) : Game_init(d)
    /\ outcome = "running"
    /\ snake_dir = None
    /\ step = "init"
    /\ call = NoCall
    /\ trail = <<>>
    /\ since = 0
    /\ segments = <<>>

\* The game is followed for (W*H)^2 iterations: a game that eats an apple at
\* least every W*H iterations is over before.
HamMoveCap ==
    field.dimension.x * field.dimension.y * field.dimension.x * field.dimension.y

HamNext ==
    /\ moves < HamMoveCap
    /\ Tick(HamiltonianSnake_move_to(head, apple, field))
    /\ UNCHANGED <<since, segments>>

HamSpec == HamInit /\ [][HamNext]_vars /\ WF_vars(HamNext)

\* The same game on the boards of at most LiveMaxCells cells.
HamLiveInit ==
    /\ \E d \in Boards(LiveMaxCells) : Game_init(d)
    /\ outcome = "running"
    /\ snake_dir = None
    /\ step = "init"
    /\ call = NoCall
    /\ trail = <<>>
    /\ since = 0
    /\ segments = <<>>

HamLiveSpec == HamLiveInit /\ [][HamNext]_vars /\ WF_vars(HamNext)

\* ---------------------------------------------------------------- WalkSpec
\* HamiltonianSnake::move_to applied again and again to the head coordinate
\* alone, on an empty field with the apple held fixed.

WalkInit ==
    /\ \E d \in Boards(WalkMaxCells) :
       \E s \in Coordinate_random(d) :
       \E a \in Coordinate_random(d) :
            /\ field = Field_init(d)
            /\ head = s
            /\ apple = a
            /\ trail = <<s>>
    /\ apples = 0
    /\ moves = 0
    /\ outcome = "walking"
    /\ snake_dir = None
    /\ step = "init"
    /\ call = NoCall
    /\ since = 0
    /\ segments = <<>>

WalkStep ==
    /\ Len(trail) <= field.dimension.x * field.dimension.y
    /\ Field_valid(field, head)
    /\ LET answer == HamiltonianSnake_move_to(head, apple, field)
           p == Coordinate_move_towards(head, answer[1])
       IN  /\ snake_dir' = answer
           /\ head' = p
           /\ trail' = Append(trail, p)
    /\ UNCHANGED <<apple, field, apples, moves, outcome, step, call, since, segments>>

WalkNext == WalkStep

WalkSpec == WalkInit /\ [][WalkNext]_vars

\* ---------------------------------------------------------------- FieldSpec
\* The operations of Field applied on their own: a grid of directions with at
\* most MaxSet cells that are not Null is written cell by cell, then drop_last
\* or random_available is applied to it once.

Occupied(f) ==
    {p \in Coordinate_random(f.dimension) : Field_get(f, p) # "Null"}

FieldInit ==
    /\ \E d \in Boards(FieldMaxCells) : field = Field_init(d)
    /\ head = Coordinate(0, 0)
    /\ apple = Coordinate(0, 0)
    /\ apples = 0
    /\ moves = 0
    /\ outcome = "field"
    /\ snake_dir = None
    /\ step = "init"
    /\ call = NoCall
    /\ trail = <<>>
    /\ since = 0
    /\ segments = <<>>

FieldSet ==
    \E p \in Coordinate_random(field.dimension) :
    \E d \in Direction :
        /\ call = NoCall
        /\ Cardinality(Occupied(Field_set(field, p, d))) <= MaxSet
        /\ field' = Field_set(field, p, d)
        /\ call' = NoCall
        /\ UNCHANGED <<head, apple, apples, moves, outcome, snake_dir, step, trail, since, segments>>

FieldDropLast ==
    \E start \in Coordinate_random(field.dimension) :
        LET dl == Field_drop_last(field, start)
        IN  /\ call = NoCall
            /\ field' = dl.field
            /\ call' = [op |-> "drop_last:" \o dl.status, arg |-> Some(start), ret |-> dl.ret]
            /\ UNCHANGED <<head, apple, apples, moves, outcome, snake_dir, step, trail, since, segments>>

FieldRandomAvailable ==
    \E r \in Coordinate_random(field.dimension) :
        /\ call = NoCall
        /\ call' = [op |-> "random_available", arg |-> Some(r),
                    ret |-> Field_random_available(field, r)]
        /\ UNCHANGED <<field, head, apple, apples, moves, outcome, snake_dir, step, trail, since, segments>>

FieldNext == FieldSet \/ FieldDropLast \/ FieldRandomAvailable

FieldSpec == FieldInit /\ [][FieldNext]_vars

\* ---------------------------------------------------------------- the chain

Width == field.dimension.x
Height == field.dimension.y
Cells == Coordinate_random(field.dimension)

\* The cells visited by following next() from p, up to and including the first
\* cell that holds End. ok is FALSE when the walk leaves the grid, stalls on a
\* Null cell or has visited more cells than the grid has.
RECURSIVE chain_walk(_, _, _)
chain_walk(f, p, acc) ==
    IF ~Field_valid(f, p) THEN [ok |-> FALSE, cells |-> acc]
    ELSE IF Field_get(f, p) = "End" THEN [ok |-> TRUE, cells |-> Append(acc, p)]
    ELSE IF Field_get(f, p) = "Null" THEN [ok |-> FALSE, cells |-> Append(acc, p)]
    ELSE IF Len(acc) >= f.dimension.x * f.dimension.y
         THEN [ok |-> FALSE, cells |-> Append(acc, p)]
    ELSE chain_walk(f, Field_next(f, p), Append(acc, p))

Chain(f, start) == chain_walk(f, start, <<>>)

Range(s) == {s[i] : i \in 1..Len(s)}

Distinct(s) == \A i, j \in 1..Len(s) : i # j => s[i] # s[j]

\* The chain from start is one simple path that holds every cell that is not Null.
ChainOK(f, start) ==
    LET c == Chain(f, start)
    IN  /\ c.ok
        /\ Distinct(c.cells)
        /\ Len(c.cells) - 1 <= f.dimension.x * f.dimension.y
        /\ Occupied(f) = Range(c.cells)

\* ---------------------------------------------------------------- claims

\* C1. Chain invariant: in every state reachable from Game::init by any
\* sequence of moves, following next() from head visits pairwise distinct
\* cells, reaches a cell holding End within W*H steps, and every cell that is
\* not Null lies on that walk.
C1_ChainInvariant == ChainOK(field, head)

\* C1 witness: a snake of at least four cells that has just moved and dropped
\* its tail.
C1_Witness ==
    /\ step = "tail"
    /\ apples >= 3
    /\ Len(Chain(field, head).cells) >= 4

\* C2. Hamiltonian safety: driven by HamiltonianSnake::move_to the game never
\* ends with "crashed in wall" and never ends with "ate snake", on boards of
\* even and of odd area alike.
C2_HamNeverCrashes == outcome \notin {"crashed in wall", "ate snake"}

\* C2 witness: on a board of odd area the snake fills all cells but one and
\* has just stepped into the cell its tail leaves.
C2_Witness ==
    /\ odd(Width) /\ odd(Height)
    /\ step = "follow"
    /\ apples = Width * Height - 2
    /\ outcome = "running"

\* C3. Hamiltonian liveness: driven by HamiltonianSnake::move_to the game
\* eventually reaches the Won outcome, and when it does apples = W*H - 1.
C3_HamEventuallyWins ==
    /\ <>(outcome = "won")
    /\ [](outcome = "won" => apples = Width * Height - 1)

\* C3 witness: the game is won on a board of odd area.
C3_Witness ==
    /\ odd(Width) /\ odd(Height)
    /\ outcome = "won"
    /\ apples = Width * Height - 1

\* The walk along move_to stays on the grid, and once it has taken W*H steps
\* it is back on its first cell and its first W*H cells are all the cells.
WalkClosure ==
    /\ \A i \in 1..Len(trail) : Field_valid(field, trail[i])
    /\ Len(trail) = Width * Height + 1 =>
          /\ trail[Width * Height + 1] = trail[1]
          /\ {trail[i] : i \in 1..(Width * Height)} = Cells

\* C4 as stated. Cycle closure on every grid with W,H >= 2, the grids of odd
\* area included: from every start cell and with every fixed apple the walk
\* along move_to visits all W*H cells once and is back at the start after
\* exactly W*H steps.
C4_ClosureOnEveryGrid == WalkClosure

\* C4 as amended. Cycle closure on every grid with W,H >= 2 and W*H even.
C4_ClosureOnEvenGrids == ~odd(Width * Height) => WalkClosure

\* C4 witness: a walk of W*H steps on a grid of odd width and even height.
C4_Witness ==
    /\ odd(Width) /\ ~odd(Height)
    /\ Width >= 5 /\ Height >= 4
    /\ Len(trail) = Width * Height + 1

\* The answers that are a movement direction.
SomeCardinal == {Some(d) : d \in Direction_random}

\* The last cell of the chain from start: the snake's tail.
TailCell(f, start) ==
    LET c == Chain(f, start).cells IN c[Len(c)]

\* C5. Self-follow corner case: a move whose candidate cell holds End does
\* not end the game with "ate snake"; after it head is the old tail cell, the
\* cell that was second to last in the chain is the new End cell, as many
\* cells are occupied as before, the chain invariant holds, and apple and
\* apples are unchanged.
C5_SelfFollow ==
    [][(outcome = "running" /\ snake_dir' \in SomeCardinal) =>
        LET dir  == snake_dir'[1]
            cand == Coordinate_move_towards(head, dir)
            c    == Chain(field, head).cells
        IN  (cand \in Cells /\ Field_get(field, cand) = "End") =>
                /\ outcome' = "running"
                /\ head' = c[Len(c)]
                /\ Len(c) >= 2
                /\ Field_get(field', c[Len(c) - 1]) = "End"
                /\ Cardinality(Occupied(field')) = Cardinality(Occupied(field))
                /\ ChainOK(field', head')
                /\ apple' = apple
                /\ apples' = apples
      ]_vars

\* C5 witness: a snake of at least three cells has just stepped into the cell
\* of its tail.
C5_Witness ==
    /\ step = "follow"
    /\ apples >= 2
    /\ outcome = "running"

\* The apple is on the grid, on a Null cell, and so not on the head.
AppleOnNull ==
    /\ apple \in Cells
    /\ Field_get(field, apple) = "Null"
    /\ apple # head

\* C6 as stated. Apple invariant: in every reachable state, after Game::init
\* and after every tick, apple is an in-bounds coordinate whose cell is Null.
C6_AppleAlwaysOnNull == AppleOnNull

\* C6 as amended. In every reachable state in which the game is not won,
\* apple is an in-bounds coordinate whose cell is Null; in the won state the
\* apple is left on the head.
C6_AppleOnNullUnlessWon ==
    IF outcome = "won" THEN apple = head ELSE AppleOnNull

\* C6 witness: the apple has just been eaten and placed again, the snake being
\* at least four cells long.
C6_Witness ==
    /\ step = "apple"
    /\ outcome = "running"
    /\ apples >= 3

\* C7. Won condition: the game reports Won exactly on a tick in which the head
\* enters the apple cell and no Null cell remains; then all W*H cells are
\* occupied and apples = W*H - 1. When the head enters the apple cell and a
\* Null cell remains, the game goes on with the apple on a Null cell and the
\* tail not dropped.
C7_WonCondition ==
    [][outcome = "running" =>
        LET enters    == /\ snake_dir' \in SomeCardinal
                         /\ Coordinate_move_towards(head, snake_dir'[1]) = apple
            nullAfter == (Cells \ Occupied(field)) \ {apple}
        IN  /\ outcome' = "won" <=> (enters /\ nullAfter = {})
            /\ outcome' = "won" =>
                  /\ Occupied(field') = Cells
                  /\ apples' = Width * Height - 1
                  /\ head' = apple
            /\ (enters /\ nullAfter # {}) =>
                  /\ outcome' = "running"
                  /\ head' = apple
                  /\ apple' \in nullAfter
                  /\ Field_get(field', apple') = "Null"
                  /\ Occupied(field') = Occupied(field) \cup {apple}
                  /\ TailCell(field', head') = TailCell(field, head)
                  /\ apples' = apples + 1
      ]_vars

\* C7 witness: the game is won on the 3 x 3 board.
C7_Witness ==
    /\ outcome = "won"
    /\ Width = 3 /\ Height = 3

\* C8. Outcome classification: for a movement direction d and candidate =
\* head.move_towards(d), the tick ends with "crashed in wall" iff the candidate
\* is out of bounds, with "ate snake" iff it is in bounds and its cell is
\* neither Null nor End, and in all other cases the move is applied.
C8_Classification ==
    [][(outcome = "running" /\ snake_dir' \in SomeCardinal) =>
        LET dir  == snake_dir'[1]
            cand == Coordinate_move_towards(head, dir)
            body == cand \in Cells /\ Field_get(field, cand) \notin {"Null", "End"}
        IN  /\ outcome' = "crashed in wall" <=> cand \notin Cells
            /\ outcome' = "ate snake" <=> body
            /\ (cand \in Cells /\ ~body) =>
                  /\ outcome' \in {"running", "won"}
                  /\ head' = cand
                  /\ Field_get(field', cand) # "Null"
      ]_vars

\* C8 witness: a game has ended with "ate snake".
C8_Witness == outcome = "ate snake"

\* C9. drop_last postcondition: when following next() from start reaches a
\* cell holding End, drop_last(start) returns the coordinate of that cell,
\* that cell holds Null afterwards, the cell visited just before it holds End
\* afterwards, and every other cell is unchanged.
C9_DropLast ==
    [][call'.op \in {"drop_last:ok", "drop_last:hang", "drop_last:panic"} =>
        LET start == call'.arg[1]
            c     == Chain(field, start)
            n     == Len(c.cells)
        IN  c.ok =>
              /\ call'.op = "drop_last:ok"
              /\ call'.ret = Some(c.cells[n])
              /\ Field_get(field', c.cells[n]) = "Null"
              /\ n >= 2 => Field_get(field', c.cells[n - 1]) = "End"
              /\ \A p \in Cells :
                    (p # c.cells[n] /\ (n >= 2 => p # c.cells[n - 1])) =>
                        Field_get(field', p) = Field_get(field, p)
      ]_vars

\* C9 witness: drop_last has returned after a walk of at least two steps (the
\* start cell still holds its direction).
C9_Witness ==
    /\ call.op = "drop_last:ok"
    /\ Field_get(field, call.arg[1]) \in Direction_random
    /\ Field_get(field, call.ret[1]) = "Null"

\* The i-th cell of the scan of random_available with offset r, as the claim
\* states it: y outer, x inner, both wrapped.
ScanCell(r, i) ==
    Coordinate(((i % Width) + r.x) % Width, ((i \div Width) + r.y) % Height)

\* C10. random_available: the result is Some(p) iff the field has a Null cell;
\* p is the first Null cell in the scan order; the scan covers all W*H cells;
\* and when exactly one cell is Null that cell is returned for every offset.
C10_RandomAvailable ==
    call.op = "random_available" =>
        LET r     == call.arg[1]
            res   == call.ret
            nulls == Cells \ Occupied(field)
            last  == Width * Height - 1
        IN  /\ res # None <=> nulls # {}
            /\ {ScanCell(r, i) : i \in 0..last} = Cells
            /\ res # None =>
                  \E i \in 0..last :
                      /\ ScanCell(r, i) = res[1]
                      /\ res[1] \in nulls
                      /\ \A j \in 0..(i - 1) : ScanCell(r, j) \notin nulls
            /\ Cardinality(nulls) = 1 => res = Some(CHOOSE p \in nulls : TRUE)

\* C10 witness: the one Null cell of a grid is returned for an offset that is
\* not that cell.
C10_Witness ==
    /\ call.op = "random_available"
    /\ Cardinality(Cells \ Occupied(field)) = 1
    /\ call.ret # None
    /\ call.ret # call.arg

\* C11 as stated. Move counter: every iteration of the main loop raises moves
\* by exactly one, whatever its outcome (the snake moved, crashed in a wall,
\* ate itself, forfeited, answered End or Null, or won).
C11_MovesEveryTick == [][outcome = "running" => moves' = moves + 1]_vars

\* The cells that hold End.
EndCells == {p \in Cells : Field_get(field, p) = "End"}

\* C12 as stated. Head marker: in every reachable state the cell at head is
\* the cell that holds End.
C12_HeadHoldsEnd == Field_get(field, head) = "End"

\* C12, amended. End marker: in every reachable state exactly one cell holds
\* End and it is the last cell of the chain from head (the tail); it is the
\* cell at head exactly when the snake is one cell long (apples = 0), and
\* otherwise the cell at head holds the inverse of the direction last moved.
C12_EndMarksTail ==
    /\ EndCells = {TailCell(field, head)}
    /\ Field_get(field, head) = "End" <=> apples = 0
    /\ (apples > 0 /\ outcome \in {"running", "won"}) =>
          /\ snake_dir # None
          /\ Field_get(field, head) = Direction_invert(snake_dir[1])

\* C12 witness: a snake of three cells has just moved; its head cell points
\* back along the body and End is two cells further.
C12_Witness ==
    /\ step = "tail"
    /\ apples = 2
    /\ Field_get(field, head) \in Direction_random
    /\ Len(Chain(field, head).cells) = 3
    /\ Field_get(field, Chain(field, head).cells[3]) = "End"

\* C13 as stated. Malformed chain handling: when the walk of drop_last from
\* start never reaches a cell holding End (a cycle of directions, or a stall
\* on a Null cell), the traversal stops within W*H steps and the program
\* aborts; it does not loop forever.
C13_MalformedChainAborts ==
    [][(/\ call'.op \in {"drop_last:ok", "drop_last:hang", "drop_last:panic"}
        /\ ~Chain(field, call'.arg[1]).ok)
          => call'.op = "drop_last:panic"]_vars

\* ---------------------------------------------------------------- PrioSpec
\* GreedyPickySnake::prioritize applied once to a head and an apple of a board.

PrioInit ==
    /\ \E d \in Boards(PrioMaxCells) :
       \E s \in Coordinate_random(d) :
       \E a \in Coordinate_random(d) :
            /\ field = Field_init(d)
            /\ head = s
            /\ apple = a
    /\ apples = 0
    /\ moves = 0
    /\ outcome = "prioritize"
    /\ snake_dir = None
    /\ step = "init"
    /\ call = NoCall
    /\ trail = <<>>
    /\ since = 0
    /\ segments = <<>>

PrioStep ==
    /\ call = NoCall
    /\ call' = [op  |-> "prioritize",
                arg |-> Some(<<head, apple>>),
                ret |-> Some(GreedyPickySnake_prioritize(head, apple))]
    /\ UNCHANGED <<head, apple, field, apples, moves, outcome, snake_dir, step, trail,
                   since, segments>>

PrioNext == PrioStep

PrioSpec == PrioInit /\ [][PrioNext]_vars

\* The direction from the head toward the apple on an axis; on an axis whose
\* delta is 0 prioritize takes Left or Up.
Toward(axis, delta) ==
    IF axis = "x" THEN (IF delta.x > 0 THEN "Right" ELSE "Left")
                  ELSE (IF delta.y > 0 THEN "Down" ELSE "Up")

OtherAxis(axis) == IF axis = "x" THEN "y" ELSE "x"

\* C14 as stated. Greedy priority order: for head # apple, prioritize ranks
\* first the direction toward the apple on the axis whose absolute delta is
\* larger (ties and dy = 0 go to the x-axis), second the direction toward the
\* apple on the other axis, then the two remaining directions.
C14_LargerAxisFirst ==
    (call.op = "prioritize" /\ head # apple) =>
        LET delta == Coordinate_difference(head, apple)
            order == call.ret[1]
            axis  == IF abs(delta.x) >= abs(delta.y) THEN "x" ELSE "y"
        IN  /\ order[1] = Toward(axis, delta)
            /\ order[2] = Toward(OtherAxis(axis), delta)
            /\ {order[3], order[4]} = Direction_random \ {order[1], order[2]}

\* C14, amended. Greedy priority order: for head # apple, prioritize ranks
\* first the direction toward the apple on the axis whose delta is not 0 and
\* has the smaller absolute value (the y-axis when |dx| = |dy|); second the
\* direction toward the apple on the other axis (Up or Left when that delta
\* is 0); third the opposite of the second; last the opposite of the first.
C14_SmallerAxisFirst ==
    (call.op = "prioritize" /\ head # apple) =>
        LET delta == Coordinate_difference(head, apple)
            order == call.ret[1]
            axis  == IF delta.y = 0 THEN "x"
                     ELSE IF delta.x = 0 THEN "y"
                     ELSE IF abs(delta.x) < abs(delta.y) THEN "x" ELSE "y"
        IN  /\ order[1] = Toward(axis, delta)
            /\ order[2] = Toward(OtherAxis(axis), delta)
            /\ order[3] = Direction_invert(order[2])
            /\ order[4] = Direction_invert(order[1])

\* C14 witness: the apple is one column to the right and two rows up, and
\* prioritize has put Right first and Up second.
C14_Witness ==
    /\ call.op = "prioritize"
    /\ Coordinate_difference(head, apple) = Coordinate(1, 0 - 2)
    /\ call.ret[1] = <<"Right", "Up", "Down", "Left">>

\* ---------------------------------------------------------------- StarveSpec
\* The game with HamiltonianSnake, counting in since the iterations that moved
\* the snake after the last apple was eaten (or after the start), the one that
\* eats the next apple included.

StarveInit ==
    /\ \E d \in Boards(StarveMaxCells) : Game_init(d)
    /\ outcome = "running"
    /\ snake_dir = None
    /\ step = "init"
    /\ call = NoCall
    /\ trail = <<>>
    /\ since = 0
    /\ segments = <<>>

StarveNext ==
    /\ moves < HamMoveCap
    /\ Tick(HamiltonianSnake_move_to(head, apple, field))
    /\ since' = IF step' \in {"apple", "tail", "follow"}
                THEN (IF step = "apple" THEN 0 ELSE since) + 1
                ELSE since
    /\ UNCHANGED segments

StarveSpec == StarveInit /\ [][StarveNext]_vars

\* C15. Bounded starvation under HamiltonianSnake: on every board, from every
\* initial head and with every placement of the apples, at most W*H - 1
\* iterations move the snake from the start to the first apple and from one
\* apple to the next, the iteration that eats included.
C15_BoundedStarvation == since <= Width * Height - 1

\* C15 witness: on a board of odd area an apple is eaten by the last
\* iteration the bound allows.
C15_Witness ==
    /\ odd(Width) /\ odd(Height)
    /\ step = "apple"
    /\ apples >= 2
    /\ since = Width * Height - 1

\* ---------------------------------------------------------------- ImpatientSpec
\* The game with the impatient (hybrid) snake.

ImpatientInit ==
    /\ \E d \in Boards(ImpatientMaxCells) : Game_init(d)
    /\ outcome = "running"
    /\ snake_dir = None
    /\ step = "init"
    /\ call = NoCall
    /\ trail = <<>>
    /\ since = 0
    /\ segments = <<>>

ImpatientNext ==
    /\ moves < HamMoveCap
    /\ \E answer \in {ImpatientSnake_move_to(head, apple, field)} : Tick(answer)
    /\ UNCHANGED <<since, segments>>

ImpatientSpec == ImpatientInit /\ [][ImpatientNext]_vars

\* C16. Impatient (hybrid) safety: when every direction is chosen by the
\* impatient snake, the game never ends with "crashed in wall" and never with
\* "ate snake", from every initial head and with every placement of the apples.
C16_ImpatientNeverCrashes == outcome \notin {"crashed in wall", "ate snake"}

\* C17. Length accounting: in every reachable state the cells that are not
\* Null are apples + 1; an iteration that eats an apple raises both numbers by
\* exactly one, and every other iteration that moves the snake (a move that
\* drops the tail, or a move into the cell the tail leaves) changes neither.
C17_LengthAccounting ==
    /\ [](Cardinality(Occupied(field)) = apples + 1)
    /\ [][/\ step' = "apple" /\ outcome = "running" =>
                /\ apples' = apples + 1
                /\ Cardinality(Occupied(field')) = Cardinality(Occupied(field)) + 1
          /\ (step' \in {"tail", "follow"} /\ outcome = "running") =>
                /\ head' # head
                /\ apples' = apples
                /\ Cardinality(Occupied(field')) = Cardinality(Occupied(field))
         ]_vars

\* C17 witness: the snake has moved into the cell its tail left, four cells
\* long with three apples eaten.
C17_Witness ==
    /\ step = "follow"
    /\ outcome = "running"
    /\ apples = 3
    /\ Cardinality(Occupied(field)) = 4

\* ---------------------------------------------------------------- RefSpec
\* The game with a snake that may answer anything, run side by side with a
\* reference snake kept in segments as an explicit queue of cells, head
\* first: every iteration that moves the snake pushes the new head cell at
\* the front, and pops the cell at the back unless it ate an apple.

RefInit ==
    /\ \E d \in Boards(MaxCells) : Game_init(d)
    /\ outcome = "running"
    /\ snake_dir = None
    /\ step = "init"
    /\ call = NoCall
    /\ trail = <<>>
    /\ since = 0
    /\ segments = <<head>>

RefNext ==
    \E snake_opt \in {None} \cup {Some(d) : d \in Direction} :
        /\ moves < MaxMoves
        /\ Tick(snake_opt)
        /\ segments' =
              IF step' \in {"apple", "tail", "follow"}
              THEN LET pushed == <<Coordinate_move_towards(segments[1], snake_opt[1])>>
                                   \o segments
                   IN  IF step' = "apple"
                       THEN pushed
                       ELSE SubSeq(pushed, 1, Len(pushed) - 1)
              ELSE segments
        /\ UNCHANGED since

RefSpec == RefInit /\ [][RefNext]_vars

\* C18. Refinement to an explicit queue of segments: after every iteration,
\* the ones that move into the cell the tail leaves included, the cells met
\* by walking next() from head up to and including the End cell are the
\* reference queue, cell for cell.
C18_QueueRefinement ==
    /\ Chain(field, head).ok
    /\ Chain(field, head).cells = segments

\* C18 witness: a snake of four cells has moved into the cell its tail left,
\* so that the cell popped at the back is the cell pushed at the front.
C18_Witness ==
    /\ step = "follow"
    /\ outcome = "running"
    /\ Len(segments) = 4
    /\ Chain(field, head).cells = segments
    /\ segments[1] = head

\* C19. Terminal iterations leave the board alone: an iteration that ends the
\* game because the snake forfeits (None), answers End or Null, steps into a
\* wall or steps into its body leaves every cell of the field, head, apple and
\* apples as they were.
C19_TerminalTickNoEffect ==
    [][(/\ outcome = "running"
        /\ outcome' \in {"forfeit", "ejected", "crashed in wall", "ate snake"})
          => /\ field' = field
             /\ head' = head
             /\ apple' = apple
             /\ apples' = apples]_vars

\* C19 witness: a snake of at least three cells has stepped into its body and
\* the game is over; the head is where the chain starts.
C19_Witness ==
    /\ outcome = "ate snake"
    /\ apples >= 2
    /\ ChainOK(field, head)
    /\ Field_get(field, Coordinate_move_towards(head, snake_dir[1])) \in Direction_random

\* ---------------------------------------------------------------- PickySpec
\* The game with GreedyPickySnake (choose_snake(2)).

PickyInit ==
    /\ \E d \in Boards(PickyMaxCells) : Game_init(d)
    /\ outcome = "running"
    /\ snake_dir = None
    /\ step = "init"
    /\ call = NoCall
    /\ trail = <<>>
    /\ since = 0
    /\ segments = <<>>

PickyNext ==
    /\ moves < PickyMaxMoves
    /\ \E answer \in {GreedyPickySnake_move_to(head, apple, field)} : Tick(answer)
    /\ UNCHANGED <<since, segments>>

PickySpec == PickyInit /\ [][PickyNext]_vars

\* The directions that lead from the head to a cell of the grid that is Null.
FreeDirections ==
    {d \in Direction_random :
        LET pos == Coordinate_move_towards(head, d)
        IN  pos \in Cells /\ Field_get(field, pos) = "Null"}

\* C20. GreedyPickySnake: in every reachable state move_to answers Some(d)
\* with the cell at head.move_towards(d) in bounds and Null whenever one of
\* the four neighbours of head is in bounds and Null, and answers None only
\* when none is; the game it drives never ends with "crashed in wall" or
\* "ate snake", only by forfeit or won.
C20_PickySnake ==
    LET answer == GreedyPickySnake_move_to(head, apple, field)
    IN  /\ FreeDirections # {} => (answer # None /\ answer[1] \in FreeDirections)
        /\ FreeDirections = {} => answer = None
        /\ outcome \in {"running", "forfeit", "won"}
        /\ outcome = "forfeit" => (snake_dir = None /\ FreeDirections = {})

\* C20 witness: the snake has forfeited in a dead end, with cells of the
\* board still Null.
C20_Witness ==
    /\ outcome = "forfeit"
    /\ apples >= 3
    /\ FreeDirections = {}
    /\ Cells \ Occupied(field) # {}

\* ---------------------------------------------------------------- GenSpec
\* HamiltonianSnake::move_to applied once to a head of a board with the apple
\* at one cell and once more with the apple at another cell.

GenInit ==
    /\ \E d \in Boards(GenMaxCells) :
       \E s \in Coordinate_random(d) :
       \E a \in Coordinate_random(d) :
            /\ field = Field_init(d)
            /\ head = s
            /\ apple = a
    /\ apples = 0
    /\ moves = 0
    /\ outcome = "move_to"
    /\ snake_dir = None
    /\ step = "init"
    /\ call = NoCall
    /\ trail = <<>>
    /\ since = 0
    /\ segments = <<>>

GenStep ==
    \E other \in Coordinate_random(field.dimension) :
        /\ call = NoCall
        /\ snake_dir' = HamiltonianSnake_move_to(head, apple, field)
        /\ call' = [op  |-> "move_to",
                    arg |-> Some(other),
                    ret |-> HamiltonianSnake_move_to(head, other, field)]
        /\ UNCHANGED <<head, apple, field, apples, moves, outcome, step, trail,
                       since, segments>>

GenNext == GenStep

GenSpec == GenInit /\ [][GenNext]_vars

\* C21. Apple independence of the Hamiltonian generator: on every board, for
\* every head on the grid and every two positions of the apple, move_to
\* answers the same direction for both unless W and H are both odd and the
\* head is at (W-1, 1); the answer is always one of Left, Right, Up, Down and
\* the cell it leads to is on the grid.
C21_AppleIndependence ==
    call.op = "move_to" =>
        /\ \A answer \in {snake_dir, call.ret} :
              /\ answer # None
              /\ answer[1] \in Direction_random
              /\ Coordinate_move_towards(head, answer[1]) \in Cells
        /\ ~(odd(Width) /\ odd(Height) /\ head = Coordinate(Width - 1, 1)) =>
              snake_dir = call.ret

\* C21 witness: on a board of odd width and height the head is in the last
\* column two rows below the corner case, one apple is in row 0 and the other
\* is not, and the two answers are the same.
C21_Witness ==
    /\ call.op = "move_to"
    /\ odd(Width) /\ odd(Height)
    /\ head = Coordinate(Width - 1, 3)
    /\ apple.y = 0
    /\ call.arg[1].y # 0
    /\ snake_dir = call.ret
    /\ snake_dir = Some("Left")

====
